---- MODULE Spec2Model ----
(***************************************************************************)
(* Model of btb_manager_telegram/utils.py: the update checker and its      *)
(* reminder chain on the delayed-task scheduler, the Telegram text         *)
(* helpers escape_tg and telegram_text_truncator, and the process locator  *)
(* get_binance_trade_bot_process.                                          *)
(*                                                                         *)
(* A text is a sequence of characters, each character a one-symbol string. *)
(* Time is counted in days (every delay in the source is a whole number    *)
(* of days).                                                               *)
(***************************************************************************)
EXTENDS Integers, Sequences, FiniteSets, TLC

VARIABLES
    TG_UPDATE_BROADCASTED_BEFORE,   \* settings.TG_UPDATE_BROADCASTED_BEFORE
    BTB_UPDATE_BROADCASTED_BEFORE,  \* settings.BTB_UPDATE_BROADCASTED_BEFORE
    queue,      \* scheduler queue: set of pending events
    counter,    \* scheduler's event sequence counter
    now,        \* scheduler clock, in days
    chat,       \* texts delivered by settings.CHAT.send_message, in order
    log,        \* history: the last task the scheduler invoked, and counts
    call        \* the pure-function call under study (input, then result)

vars == <<TG_UPDATE_BROADCASTED_BEFORE, BTB_UPDATE_BROADCASTED_BEFORE,
          queue, counter, now, chat, log, call>>

schedVars == <<TG_UPDATE_BROADCASTED_BEFORE, BTB_UPDATE_BROADCASTED_BEFORE,
               queue, counter, now, chat, log>>

----------------------------------------------------------------------------
(* Bounds *)

\* last day on which the scheduler still runs a due task
MaxDay == 9

\* longest input text given to escape_tg
MaxLen == 4

\* most parts in the list given to telegram_text_truncator
MaxParts == 3

\* most processes in the process table scanned by the locator
MaxProcs == 2

----------------------------------------------------------------------------
(* escape_tg *)

escape_char == {".", "-", "?", "!", ">", "{", "}", "=", "+", "|"}

Backslash == "\\"

\* line 40: a backslash is added before cur_char
NeedsEscape(cur_char, is_escaped) == cur_char \in escape_char /\ ~is_escaped

\* line 43: the state carried to the next character
NextIsEscapedMutNoToggle(cur_char, is_escaped) == cur_char = Backslash

NextIsEscaped(cur_char, is_escaped) == cur_char = Backslash /\ ~is_escaped

RECURSIVE EscapeLoop(_, _, _, _)
\* the for loop of escape_tg from position i on
EscapeLoop(message, i, escaped_message, is_escaped) ==
    IF i > Len(message) THEN escaped_message
    ELSE LET cur_char == message[i]
             added == IF NeedsEscape(cur_char, is_escaped)
                      THEN Append(escaped_message, Backslash)
                      ELSE escaped_message
         IN EscapeLoop(message, i + 1, Append(added, cur_char),
                       NextIsEscaped(cur_char, is_escaped))

escape_tg(message) == EscapeLoop(message, 1, <<>>, FALSE)

----------------------------------------------------------------------------
(* Texts of the update notices *)

Repos == {"tgb", "btb"}

\* i18n.t('update.<repo>.available') and i18n.t('update.<repo>.instruction'):
\* the string tables are not part of the source; each text is represented by
\* one symbol naming it followed by one markup-significant character, so that
\* escaping is observable in what is sent.
Available(repo) == <<repo, "!">>

Instruction(repo) == <<"instruction", ".">>

\* f"{available}\n\n{instruction}"
Message(repo) == Available(repo) \o <<"\n", "\n">> \o Instruction(repo)

\* "_*Reminder*_:\n\n"
ReminderPrefix == <<"_", "*", "Reminder", "*", "_", ":", "\n", "\n">>

----------------------------------------------------------------------------
(* Availability checks *)

\* outcomes of the git commands run by is_tg_bot_update_available
GitStatusOutcomes == {"behind", "up_to_date", "exception"}

is_tg_bot_update_available(outcome) ==
    IF outcome = "exception" THEN "None"
    ELSE IF outcome = "behind" THEN "True" ELSE "False"

\* outcomes of the git commands run by is_btb_bot_update_available
GitTagOutcomes ==
    { [raised |-> FALSE, current_version |-> "v1", remote_version |-> "v1"],
      [raised |-> FALSE, current_version |-> "v1", remote_version |-> "v2"],
      [raised |-> TRUE,  current_version |-> "v1", remote_version |-> "v1"] }

is_btb_bot_update_available(outcome) ==
    IF outcome.raised THEN "None"
    ELSE IF outcome.current_version # outcome.remote_version
         THEN "True" ELSE "False"

\* truth value of `if <re>:` for re in True, False, None
TruthyMutNotFalse(re) == re # "False"

Truthy(re) == re = "True"

----------------------------------------------------------------------------
(* Scheduler *)

\* dt.timedelta(days=1): delay of the next update_checker
CheckerDelay == 1

\* dt.timedelta(days=7): delay of a reminder
ReminderDelayMutDaily == CheckerDelay

ReminderDelay == 7

\* the priority every task is entered with
Priority == 1

\* number of positional parameters of each callable
Arity(action) == IF action = "update_reminder" THEN 2 ELSE 0

\* scheduler.enter(delay, priority, action, argument) on a task state st
Enter(st, delay, action, argument) ==
    LET ev == [time |-> st.now + delay, priority |-> Priority,
               sequence |-> st.counter, action |-> action,
               argument |-> argument]
    IN [st EXCEPT !.queue = @ \cup {ev}, !.counter = @ + 1,
                  !.entered = @ \cup {ev}]

\* settings.CHAT.send_message(text, ...) returning normally
Send(st, text) == [st EXCEPT !.chat = Append(@, text), !.sent = Append(@, text)]

\* heap order of the scheduler's events
Before(e, f) ==
    \/ e.time < f.time
    \/ e.time = f.time /\ e.priority < f.priority
    \/ e.time = f.time /\ e.priority = f.priority /\ e.sequence < f.sequence

NextEvent(q) == CHOOSE e \in q : \A f \in q \ {e} : Before(e, f)

----------------------------------------------------------------------------
(* update_checker and update_reminder *)

\* A task runs on a task state st: the settings, the scheduler and the chat,
\* plus what the run has done so far (sent, entered, checked, results) and
\* the exception that ended it, if any (raised).

Flag(st, repo) == IF repo = "tgb" THEN st.tg ELSE st.btb

SetFlag(st, repo) ==
    IF repo = "tgb" THEN [st EXCEPT !.tg = TRUE] ELSE [st EXCEPT !.btb = TRUE]

\* `settings.<REPO>_UPDATE_BROADCASTED_BEFORE is False`
NotBroadcastedBeforeMutAlways(flag) == TRUE

NotBroadcastedBefore(flag) == flag = FALSE

\* lines 211-225 (tgb) and 227-241 (btb); re is the result the availability
\* check returns if it is called, sendRaises whether send_message raises
RepoBlock(st, repo, re, sendRaises) ==
    IF st.raised # "none" THEN st
    ELSE IF ~NotBroadcastedBefore(Flag(st, repo)) THEN st
    ELSE LET checked == [st EXCEPT !.checked = @ \cup {repo},
                                   !.results[repo] = re]
         IN IF ~Truthy(re) THEN checked
            ELSE LET flagged == SetFlag(checked, repo)
                 IN IF sendRaises
                    THEN [flagged EXCEPT !.raised = "TelegramError"]
                    ELSE Enter(Send(flagged, escape_tg(Message(repo))),
                               ReminderDelay, "update_reminder",
                               <<ReminderPrefix \o Message(repo)>>)

\* lines 243-246
ShouldRescheduleMutBoth(tg, btb) == tg = FALSE /\ btb = FALSE

ShouldReschedule(tg, btb) == tg = FALSE \/ btb = FALSE

update_checker(st, tgOutcome, btbOutcome, tgSendRaises, btbSendRaises) ==
    LET a == RepoBlock(st, "tgb", is_tg_bot_update_available(tgOutcome),
                       tgSendRaises)
        b == RepoBlock(a, "btb", is_btb_bot_update_available(btbOutcome),
                       btbSendRaises)
    IN IF b.raised # "none" THEN b
       ELSE IF ShouldReschedule(b.tg, b.btb)
            THEN Enter(b, CheckerDelay, "update_checker", <<>>)
            ELSE b

update_reminder(st, self, message, sendRaises) ==
    IF sendRaises THEN [st EXCEPT !.raised = "TelegramError"]
    ELSE Enter(Send(st, escape_tg(message)), ReminderDelay, "update_reminder",
               <<ReminderPrefix \o message>>)

\* action(*argument): binding the argument tuple to the parameters
BindsArguments(e) == Len(e.argument) = Arity(e.action)

NoResults == [r \in Repos |-> "not_called"]

\* the task state at the moment the scheduler calls event e
TaskState(e) ==
    [tg |-> TG_UPDATE_BROADCASTED_BEFORE, btb |-> BTB_UPDATE_BROADCASTED_BEFORE,
     queue |-> queue \ {e}, counter |-> counter,
     now |-> IF e.time > now THEN e.time ELSE now,
     chat |-> chat, sent |-> <<>>, entered |-> {}, checked |-> {},
     results |-> NoResults, raised |-> "none"]

Flags(tg, btb) == [tgb |-> tg, btb |-> btb]

\* the state after the task called for event e ended in task state st
Finish(e, st) ==
    /\ TG_UPDATE_BROADCASTED_BEFORE' = st.tg
    /\ BTB_UPDATE_BROADCASTED_BEFORE' = st.btb
    /\ queue' = st.queue
    /\ counter' = st.counter
    /\ now' = st.now
    /\ chat' = st.chat
    /\ log' = [runs |-> log.runs + 1,
               action |-> e.action, argument |-> e.argument,
               outcome |-> IF st.raised = "none" THEN "returned" ELSE st.raised,
               sent |-> st.sent, entered |-> st.entered,
               checked |-> st.checked, results |-> st.results,
               before |-> Flags(TG_UPDATE_BROADCASTED_BEFORE,
                                BTB_UPDATE_BROADCASTED_BEFORE),
               after |-> Flags(st.tg, st.btb),
               notices |-> [r \in Repos |-> log.notices[r] +
                   IF e.action = "update_checker"
                      /\ \E i \in DOMAIN st.sent :
                            st.sent[i] = escape_tg(Message(r))
                   THEN 1 ELSE 0],
               reminders |-> [r \in Repos |-> log.reminders[r] +
                   IF e.action = "update_checker"
                      /\ \E ev \in st.entered :
                            /\ ev.action = "update_reminder"
                            /\ ev.argument = <<ReminderPrefix \o Message(r)>>
                   THEN 1 ELSE 0]]
    /\ UNCHANGED call

\* the scheduler's run loop takes the due event at the head of the queue
Due(e) == queue # {} /\ e = NextEvent(queue) /\ e.time <= MaxDay

RunUpdateChecker(sendOutcomes) ==
    \E e \in queue :
        /\ Due(e)
        /\ e.action = "update_checker"
        /\ \E tgOutcome \in GitStatusOutcomes, btbOutcome \in GitTagOutcomes,
              tgSendRaises \in sendOutcomes, btbSendRaises \in sendOutcomes :
                Finish(e, IF BindsArguments(e)
                          THEN update_checker(TaskState(e), tgOutcome,
                                   btbOutcome, tgSendRaises, btbSendRaises)
                          ELSE [TaskState(e) EXCEPT !.raised = "TypeError"])

RunUpdateReminder(sendOutcomes) ==
    \E e \in queue :
        /\ Due(e)
        /\ e.action = "update_reminder"
        /\ \E sendRaises \in sendOutcomes :
                Finish(e, IF BindsArguments(e)
                          THEN update_reminder(TaskState(e), e.argument[1],
                                   e.argument[2], sendRaises)
                          ELSE [TaskState(e) EXCEPT !.raised = "TypeError"])

NoCall == [fn |-> "none"]

\* the program after start-up: both flags False and the first update_checker
\* entered in the scheduler
InitSched ==
    /\ TG_UPDATE_BROADCASTED_BEFORE = FALSE
    /\ BTB_UPDATE_BROADCASTED_BEFORE = FALSE
    /\ queue = {[time |-> 0, priority |-> Priority, sequence |-> 0,
                 action |-> "update_checker", argument |-> <<>>]}
    /\ counter = 1
    /\ now = 0
    /\ chat = <<>>
    /\ log = [runs |-> 0, action |-> "none", argument |-> <<>>,
              outcome |-> "none", sent |-> <<>>, entered |-> {},
              checked |-> {}, results |-> NoResults,
              before |-> Flags(FALSE, FALSE), after |-> Flags(FALSE, FALSE),
              notices |-> [r \in Repos |-> 0],
              reminders |-> [r \in Repos |-> 0]]

Init == InitSched /\ call = NoCall

\* send_message always returns
SendReturns == {FALSE}

\* send_message returns or raises
SendReturnsOrRaises == {FALSE, TRUE}

Next == RunUpdateChecker(SendReturns) \/ RunUpdateReminder(SendReturns)

Spec == Init /\ [][Next]_vars

NextSendFail ==
    \/ RunUpdateChecker(SendReturnsOrRaises)
    \/ RunUpdateReminder(SendReturnsOrRaises)

SpecSendFail == Init /\ [][NextSendFail]_vars

----------------------------------------------------------------------------
(* escape_tg as a call *)

\* characters of the input texts: the backslash, two markup-significant
\* characters and an ordinary one
Alphabet == {Backslash, ".", "-", "a"}

Texts == UNION {[1..n -> Alphabet] : n \in 0..MaxLen}

InitEscape ==
    /\ InitSched
    /\ call \in {[fn |-> "escape_tg", done |-> FALSE, message |-> m,
                   result |-> <<>>] : m \in Texts}

CallEscapeTg ==
    /\ call.fn = "escape_tg" /\ ~call.done
    /\ call' = [call EXCEPT !.done = TRUE, !.result = escape_tg(call.message)]
    /\ UNCHANGED schedVars

NextEscape == CallEscapeTg

SpecEscape == InitEscape /\ [][NextEscape]_vars

----------------------------------------------------------------------------
(* telegram_text_truncator *)

\* telegram.constants.MAX_MESSAGE_LENGTH
MAX_MESSAGE_LENGTH == 4096

\* A long string is kept run-length encoded: a sequence of runs, each a
\* character c repeated n times; concatenation is \o.
Run(c, n) == IF n = 0 THEN <<>> ELSE <<[c |-> c, n |-> n]>>

RECURSIVE StrLen(_)
\* len(s)
StrLen(s) == IF s = <<>> THEN 0 ELSE s[1].n + StrLen(Tail(s))

\* line 121-124: mes still fits the current chunk
Fits(chunk, mes, padding_chars_tail) ==
    StrLen(chunk) + StrLen(mes) + StrLen(padding_chars_tail)
        <= MAX_MESSAGE_LENGTH

RECURSIVE TruncatorLoop(_, _, _, _, _)
\* the for loop of telegram_text_truncator from part i on; message[index] is
\* the last element of message throughout
TruncatorLoop(m_list, i, message, padding_chars_head, padding_chars_tail) ==
    LET index == Len(message)
    IN IF i > Len(m_list)
       THEN [message EXCEPT ![index] = @ \o padding_chars_tail]
       ELSE LET mes == m_list[i]
            IN IF Fits(message[index], mes, padding_chars_tail)
               THEN TruncatorLoop(m_list, i + 1,
                        [message EXCEPT ![index] = @ \o mes],
                        padding_chars_head, padding_chars_tail)
               ELSE TruncatorLoop(m_list, i + 1,
                        Append([message EXCEPT ![index] = @ \o padding_chars_tail],
                               padding_chars_head \o mes),
                        padding_chars_head, padding_chars_tail)

telegram_text_truncator(m_list, padding_chars_head, padding_chars_tail) ==
    TruncatorLoop(m_list, 1, <<padding_chars_head>>, padding_chars_head,
                  padding_chars_tail)

\* parts: short, half a message, just under, exactly and just over the
\* maximum message length
Parts ==
    {Run("p", n) : n \in {1, MAX_MESSAGE_LENGTH \div 2, MAX_MESSAGE_LENGTH - 1,
                          MAX_MESSAGE_LENGTH, MAX_MESSAGE_LENGTH + 1}}

HeadPads == {Run("<", n) : n \in {0, 1, 3}}

TailPads == {Run(">", n) : n \in {0, 1, 3}}

PartLists == UNION {[1..n -> Parts] : n \in 1..MaxParts}

InitTruncator ==
    /\ InitSched
    /\ call \in {[fn |-> "telegram_text_truncator", done |-> FALSE,
                   m_list |-> l, padding_chars_head |-> h,
                   padding_chars_tail |-> t, result |-> <<>>] :
                  l \in PartLists, h \in HeadPads, t \in TailPads}

CallTruncator ==
    /\ call.fn = "telegram_text_truncator" /\ ~call.done
    /\ call' = [call EXCEPT !.done = TRUE,
                  !.result = telegram_text_truncator(call.m_list,
                      call.padding_chars_head, call.padding_chars_tail)]
    /\ UNCHANGED schedVars

NextTruncator == CallTruncator

SpecTruncator == InitTruncator /\ [][NextTruncator]_vars

----------------------------------------------------------------------------
(* get_binance_trade_bot_process *)

\* A path is absolute or relative and has a sequence of components; the
\* component "" stands for an empty one (a doubled or trailing separator).

RECURSIVE NormParts(_, _, _)
\* os.path.normpath on the components: "" and "." are dropped, ".." removes
\* the component before it (at the root of an absolute path it is dropped,
\* at the start of a relative path it is kept)
NormParts(isabs, parts, done) ==
    IF parts = <<>> THEN done
    ELSE LET comp == parts[1]
             rest == Tail(parts)
         IN IF comp = "" \/ comp = "." THEN NormParts(isabs, rest, done)
            ELSE IF comp # ".." THEN NormParts(isabs, rest, Append(done, comp))
            ELSE IF done # <<>> /\ done[Len(done)] # ".."
                 THEN NormParts(isabs, rest, SubSeq(done, 1, Len(done) - 1))
            ELSE IF isabs THEN NormParts(isabs, rest, done)
            ELSE NormParts(isabs, rest, Append(done, comp))

normpath(path) ==
    [isabs |-> path.isabs, parts |-> NormParts(path.isabs, path.parts, <<>>)]

\* os.path.join(a, b)
join(a, b) == IF b.isabs THEN b ELSE [isabs |-> a.isabs, parts |-> a.parts \o b.parts]

\* lines 136-139
bot_path(ROOT_PATH, getcwd) ==
    IF ROOT_PATH.isabs THEN normpath(ROOT_PATH)
    ELSE normpath(join(getcwd, ROOT_PATH))

\* the exceptions the scan catches (lines 147-150)
Caught == {"AccessDenied", "ZombieProcess"}

\* lines 143-145 on one process: "match", "no_match", or the exception a
\* lookup raises. A process states which lookup fails (fails) and how (error).
Examine(proc, path) ==
    IF proc.fails = "name" THEN proc.error
    ELSE IF ~proc.name_has /\ proc.fails = "cmdline" THEN proc.error
    ELSE IF ~(proc.name_has \/ proc.cmdline_has) THEN "no_match"
    ELSE IF proc.fails = "cwd" THEN proc.error
    ELSE IF proc.cwd = path THEN "match" ELSE "no_match"

RECURSIVE ScanLoop(_, _, _)
\* the for loop over psutil.process_iter() from process i on; proc = 0 is None
ScanLoop(procs, i, path) ==
    IF i > Len(procs) THEN [raised |-> "none", proc |-> 0]
    ELSE LET r == Examine(procs[i], path)
         IN IF r = "match" THEN [raised |-> "none", proc |-> i]
            ELSE IF r = "no_match" \/ r \in Caught
                 THEN ScanLoop(procs, i + 1, path)
            ELSE [raised |-> r, proc |-> 0]

get_binance_trade_bot_process(procs, ROOT_PATH, getcwd) ==
    ScanLoop(procs, 1, bot_path(ROOT_PATH, getcwd))

\* settings.ROOT_PATH as setup_root_path_constant leaves it (a trailing
\* separator), absolute, relative, and not normalized
RootPaths ==
    { [isabs |-> TRUE,  parts |-> <<"bot", "">>],
      [isabs |-> FALSE, parts |-> <<"bot", "">>],
      [isabs |-> FALSE, parts |-> <<".", "bot", "">>],
      [isabs |-> TRUE,  parts |-> <<"home", "..", "bot", "">>] }

Cwds == { [isabs |-> TRUE, parts |-> <<>>],
          [isabs |-> TRUE, parts |-> <<"home">>] }

ProcCwds == { [isabs |-> TRUE, parts |-> <<"bot">>],
              [isabs |-> TRUE, parts |-> <<"home", "bot">>] }

Failures ==
    {[fails |-> "none", error |-> "none"]}
    \cup {[fails |-> f, error |-> x] :
            f \in {"name", "cmdline", "cwd"},
            x \in {"AccessDenied", "ZombieProcess", "NoSuchProcess"}}

Processes ==
    {[name_has |-> n, cmdline_has |-> c, cwd |-> d, fails |-> f.fails,
      error |-> f.error] :
        n \in BOOLEAN, c \in BOOLEAN, d \in ProcCwds, f \in Failures}

ProcessTables == UNION {[1..n -> Processes] : n \in 0..MaxProcs}

InitProcess ==
    /\ InitSched
    /\ call \in {[fn |-> "get_binance_trade_bot_process", done |-> FALSE,
                   procs |-> t, ROOT_PATH |-> r, getcwd |-> c,
                   result |-> [raised |-> "none", proc |-> 0]] :
                  t \in ProcessTables, r \in RootPaths, c \in Cwds}

CallGetProcess ==
    /\ call.fn = "get_binance_trade_bot_process" /\ ~call.done
    /\ call' = [call EXCEPT !.done = TRUE,
                  !.result = get_binance_trade_bot_process(call.procs,
                                 call.ROOT_PATH, call.getcwd)]
    /\ UNCHANGED schedVars

NextProcess == CallGetProcess

SpecProcess == InitProcess /\ [][NextProcess]_vars

----------------------------------------------------------------------------
(* Properties of the update checker and the reminder chain *)

FlagOf(repo) ==
    IF repo = "tgb" THEN TG_UPDATE_BROADCASTED_BEFORE
    ELSE BTB_UPDATE_BROADCASTED_BEFORE

FirstNotice(repo) == escape_tg(Message(repo))

\* the update_reminder events for repo among the events evs
RemindersFor(evs, repo) ==
    {ev \in evs : /\ ev.action = "update_reminder"
                  /\ ev.argument = <<ReminderPrefix \o Message(repo)>>}

CheckersIn(evs) == {ev \in evs : ev.action = "update_checker"}

\* how many of the texts in seq equal text
Count(seq, text) == Cardinality({i \in DOMAIN seq : seq[i] = text})

\* C1: every update_reminder task the scheduler invokes with the arguments it
\* was scheduled with returns after sending one chat message and entering
\* exactly one new update_reminder task 7 days later.
C1_ReminderSendsAndReschedules ==
    log.action = "update_reminder" =>
        /\ log.outcome = "returned"
        /\ Len(log.sent) = 1
        /\ Cardinality(log.entered) = 1
        /\ \A ev \in log.entered :
              ev.action = "update_reminder" /\ ev.time = now + 7 /\ ev \in queue

\* C2: per repository, update_checker sends the first notice at most once and
\* enters a reminder at most once; a flag that is true stays true, and a run
\* that starts with the flag true sends and enters nothing for the repository.
C2_AtMostOneNotice ==
    /\ [](\A r \in Repos : log.notices[r] <= 1 /\ log.reminders[r] <= 1)
    /\ [][\A r \in Repos : FlagOf(r) =>
            /\ FlagOf(r)'
            /\ log'.notices[r] = log.notices[r]
            /\ log'.reminders[r] = log.reminders[r]
            /\ r \notin log'.checked
            /\ Count(chat', FirstNotice(r)) = Count(chat, FirstNotice(r))
            /\ RemindersFor(queue', r) \subseteq RemindersFor(queue, r)]_vars

\* a checker run that started with one flag true and was offered an update
\* for both repositories
C2_Witness ==
    /\ log.action = "update_checker"
    /\ log.before["tgb"] /\ ~log.before["btb"]
    /\ log.results["btb"] = "True"
    /\ log.notices["tgb"] = 1 /\ log.notices["btb"] = 1

\* C3: a run of update_checker that finds a repository's flag false and its
\* availability check true sends that repository's first notice, sets the
\* flag, and enters exactly one update_reminder 7 days out; for each of the
\* two repositories, also when both are available in the same run.
C3_FirstNotice ==
    log.action = "update_checker" =>
        \A r \in Repos :
            (~log.before[r] /\ log.results[r] = "True") =>
                /\ Count(log.sent, FirstNotice(r)) = 1
                /\ log.after[r] /\ FlagOf(r)
                /\ Cardinality(RemindersFor(log.entered, r)) = 1
                /\ \A ev \in RemindersFor(log.entered, r) :
                      ev.time = now + 7 /\ ev \in queue
                /\ Cardinality({ev \in log.entered :
                                   ev.action = "update_reminder"})
                     = Cardinality({q \in Repos : ~log.before[q]
                                        /\ log.results[q] = "True"})

\* both repositories become available in the same run
C3_Witness ==
    /\ log.action = "update_checker"
    /\ \A r \in Repos : ~log.before[r] /\ log.results[r] = "True"
    /\ Len(log.sent) = 2
    /\ Cardinality(log.entered) = 2

\* C4: a run of update_checker that reaches its end enters update_checker
\* once, 1 day out, if a flag is still false, and not at all otherwise; when
\* both flags are true no update_checker is pending.
C4_RescheduleIffFlagFalse ==
    /\ (log.action = "update_checker" /\ log.outcome = "returned") =>
          IF \E r \in Repos : ~log.after[r]
          THEN /\ Cardinality(CheckersIn(log.entered)) = 1
               /\ \A ev \in CheckersIn(log.entered) :
                     ev.time = now + 1 /\ ev \in queue
          ELSE CheckersIn(log.entered) = {}
    /\ (\A r \in Repos : FlagOf(r)) => CheckersIn(queue) = {}

\* a run that starts with one flag true and ends with both true
C4_Witness ==
    /\ log.action = "update_checker" /\ log.outcome = "returned"
    /\ \A r \in Repos : FlagOf(r)
    /\ log.before["tgb"] /\ ~log.before["btb"]

\* C5: a run in which a repository's availability check returns the
\* indeterminate result returns normally, sends nothing for that repository
\* and leaves its flag false, still calls the other repository's check when
\* that flag is false, and enters update_checker 1 day out.
C5_IndeterminateIsNoUpdate ==
    log.action = "update_checker" =>
        \A r \in Repos : log.results[r] = "None" =>
            /\ log.outcome = "returned"
            /\ Count(log.sent, FirstNotice(r)) = 0
            /\ RemindersFor(log.entered, r) = {}
            /\ ~log.after[r] /\ ~FlagOf(r)
            /\ \A o \in Repos \ {r} : ~log.before[o] => o \in log.checked
            /\ Cardinality(CheckersIn(log.entered)) = 1
            /\ \A ev \in CheckersIn(log.entered) :
                  ev.time = now + 1 /\ ev \in queue

\* the first check is indeterminate and the second finds an update
C5_Witness ==
    /\ log.action = "update_checker"
    /\ log.results["tgb"] = "None"
    /\ log.results["btb"] = "True"
    /\ log.sent = <<FirstNotice("btb")>>

\* C6: every invocation of a reminder sends the reminder prefix followed by
\* the repository's first notice, with the prefix exactly once.
C6_ReminderText ==
    log.action = "update_reminder" =>
        \E r \in Repos : log.sent = <<ReminderPrefix \o FirstNotice(r)>>

\* C10: a flag is true only if the repository's first notice was sent and a
\* reminder for it is pending; while a flag is false an update_checker is
\* pending.
C10_FlagsMatchQueue ==
    /\ \A r \in Repos : FlagOf(r) =>
          /\ Count(chat, FirstNotice(r)) >= 1
          /\ RemindersFor(queue, r) # {}
    /\ (\E r \in Repos : ~FlagOf(r)) => CheckersIn(queue) # {}

----------------------------------------------------------------------------
(* Properties of escape_tg and telegram_text_truncator *)

\* number of consecutive backslashes of s that end at position i
BackslashRun(s, i) ==
    CHOOSE k \in 0..i :
        /\ \A j \in (i - k + 1)..i : s[j] = Backslash
        /\ k = i \/ s[i - k] # Backslash

\* position i of s holds a backslash that escapes the next character: one
\* that is not itself escaped by the backslash before it
EscapingBackslash(s, i) == i >= 1 /\ BackslashRun(s, i) % 2 = 1

RECURSIVE Flatten(_)
Flatten(ss) == IF ss = <<>> THEN <<>> ELSE ss[1] \o Flatten(Tail(ss))

\* s with one backslash put before each markup-significant character that no
\* escaping backslash precedes
Escaped(s) ==
    Flatten([i \in 1..Len(s) |->
        IF s[i] \in escape_char /\ ~EscapingBackslash(s, i - 1)
        THEN <<Backslash, s[i]>> ELSE <<s[i]>>])

\* C8: escape_tg returns its input with one backslash inserted before each
\* markup-significant character not directly preceded by an escaping
\* backslash and nothing else changed; a text without markup-significant
\* characters is returned unchanged.
C8_EscapeTg ==
    (call.fn = "escape_tg" /\ call.done) =>
        /\ call.result = Escaped(call.message)
        /\ (\A i \in DOMAIN call.message : call.message[i] \notin escape_char)
              => call.result = call.message

\* two backslashes and a markup character: the second backslash is escaped by
\* the first, so a backslash is inserted before the markup character
C8_Witness ==
    /\ call.fn = "escape_tg" /\ call.done
    /\ call.message = <<Backslash, Backslash, ".", ".">>
    /\ call.result = <<Backslash, Backslash, Backslash, ".", Backslash, ".">>

\* C7: the truncator returns at least one chunk and no chunk, its paddings
\* included, is longer than the maximum message length.
C7_ChunksFit ==
    (call.fn = "telegram_text_truncator" /\ call.done) =>
        /\ Len(call.result) >= 1
        /\ \A k \in DOMAIN call.result :
              StrLen(call.result[k]) <= MAX_MESSAGE_LENGTH

----------------------------------------------------------------------------
(* Properties of get_binance_trade_bot_process *)

Exceptions == {"AccessDenied", "ZombieProcess", "NoSuchProcess"}

\* process i of the table answers every lookup the scan makes on it, has the
\* bot's name in its name or command line, and runs in directory path
Matches(procs, i, path) ==
    /\ Examine(procs[i], path) \notin Exceptions
    /\ procs[i].name_has \/ procs[i].cmdline_has
    /\ procs[i].cwd = path

\* C9: the locator never raises, whichever lookups fail with permission
\* denied, zombie or no-such-process; it returns the first process, among
\* those it can examine, that matches by name or command line and by working
\* directory, and None when there is none.
C9_LocatorNeverRaises ==
    (call.fn = "get_binance_trade_bot_process" /\ call.done) =>
        LET path == bot_path(call.ROOT_PATH, call.getcwd)
            hits == {i \in DOMAIN call.procs : Matches(call.procs, i, path)}
        IN /\ call.result.raised = "none"
           /\ call.result.proc =
                IF hits = {} THEN 0
                ELSE CHOOSE i \in hits : \A j \in hits : i <= j

====
